---- MODULE Spec2Model ----
(***************************************************************************)
(* Model of the two notebooks of PyTorchSummer2025:                        *)
(*   lesson_1/loss_tracking.ipynb : LinearRegressionModel, the backward    *)
(*       graph autograd records for it, and print_grad_graph;              *)
(*   the matrix-multiplication notebook : torch.matmul / mm / bmm / mul.   *)
(* print_grad_graph is recursive; the model runs it on an explicit call    *)
(* stack, one frame per Python call.                                       *)
(***************************************************************************)
EXTENDS Integers, Sequences, FiniteSets, TLC

VARIABLES
    nodes,      \* the backward nodes: node k is nodes[k]
    tensors,    \* the tensors the notebook has bound to names
    pc,         \* "idle" | "running" | "done": the outermost print_grad_graph call
    stack,      \* the Python call stack of print_grad_graph, innermost frame last
    out,        \* the console: the lines printed so far
    ret,        \* the value the outermost call returned
    call,       \* the arguments of the outermost call
    mat1, mat2, \* the operands of the multiplication notebook
    cell,       \* how many print(torch.xxx(...)) statements of its cell have run
    shown       \* what those statements printed

vars == <<nodes, tensors, pc, stack, out, ret, call, mat1, mat2, cell, shown>>

----------------------------------------------------------------------------
(* Bounds *)

MaxNodes == 3       \* nodes of the graphs print_grad_graph is run on
MaxCycNodes == 2    \* nodes of the graphs that may hold a cycle
MaxTensors == 6     \* tensors the autograd notebook creates
MaxEntry == 4       \* mat1's entries are drawn from 1..MaxEntry

StartIndents == {0, 3}          \* the indent argument of the outermost call
\* Frames the model's call stack holds: more than the deepest acyclic graph
\* of any specification below needs (MaxNodes frames, six for the loss graph).
MaxDepth == MaxNodes + 4

----------------------------------------------------------------------------
(* Python values *)

None == 0           \* None; nodes and tensors are numbered from 1
Absent == -1        \* hasattr(obj, name) is False

IndentStep == 4     \* print_grad_graph(f, indent + 4)

\* A value handed to print_grad_graph, as far as the function looks at it:
\* gf is its grad_fn attribute (Absent, None or a node), nf the node whose
\* next_functions it exposes (Absent when it has no such attribute).
Value(gf, nf) == [gf |-> gf, nf |-> nf]
NodeValue(k) == Value(Absent, k)        \* an autograd Node: next_functions, no grad_fn

\* The operand counts of the nodes the notebook shows: AccumulateGrad has no
\* operand, Abs and Mean one, Mul, Add and Sub two.
LinkCounts == 0..2

BackwardNode(name, links, variable) ==
    [name |-> name, next_functions |-> links, variable |-> variable]

----------------------------------------------------------------------------
(* print_grad_graph *)

\* Faulty variant: the " " * indent is left out of the print.
Line_noIndent(indent, k, path) == [spaces |-> 0, node |-> k, path |-> path]

Line(indent, k, path) == [spaces |-> indent, node |-> k, path |-> path]

Frame(v, indent, path) ==
    [v |-> v, indent |-> indent, at |-> "test", fn |-> None, i |-> 1, path |-> path]

Top == stack[Len(stack)]
Caller == SubSeq(stack, 1, Len(stack) - 1)
SetTop(f) == [stack EXCEPT ![Len(stack)] = f]

\* hasattr(tensor, 'grad_fn') and tensor.grad_fn is not None
TakesGradFnBranch(v) == v.gf # Absent /\ v.gf # None
\* Faulty variant: a plain else in place of the elif.
TakesNodeBranch_else(v) == ~TakesGradFnBranch(v)

\* elif hasattr(tensor, 'next_functions')
TakesNodeBranch(v) == ~TakesGradFnBranch(v) /\ v.nf # Absent

\* The node the call prints and whose next_functions it then walks.
PrintedNode(v) == IF TakesGradFnBranch(v) THEN v.gf ELSE v.nf

\* Faulty variant: the call hands back the node it printed.
ReturnFromCall_returnsNode ==
    /\ stack' = Caller
    /\ IF Len(stack) = 1
         THEN pc' = "done" /\ ret' = Top.fn
         ELSE UNCHANGED <<pc, ret>>

\* What a frame does when its for loop is over, or when neither branch is
\* taken: the function falls off its end and returns None.
ReturnFromCall ==
    /\ stack' = Caller
    /\ IF Len(stack) = 1
         THEN pc' = "done" /\ ret' = None
         ELSE UNCHANGED <<pc, ret>>

\* Faulty variant: the links walked last to first.
LoopLinks_reversed(f) ==
    LET l == nodes[f.fn].next_functions
    IN  [k \in 1..Len(l) |-> l[Len(l) + 1 - k]]

\* for f, _ in <node>.next_functions: the links in positional order.
LoopLinks(f) == nodes[f.fn].next_functions

\* Faulty variant: the None test is missing.
FollowsLink_always(f) == TRUE

\* Faulty variant: links below the third call are not followed.
FollowsLink_depthLimit(f) == f # None /\ Len(stack) < 3

\* Faulty variant: a node already printed is not visited again.
FollowsLink_dedupe(f) == f # None /\ \A i \in 1..Len(out) : out[i].node # f

\* if f is not None
FollowsLink(f) == f # None

\* The outermost call: print_grad_graph(v) or print_grad_graph(v, indent).
Call(v, indent) ==
    /\ pc = "idle"
    /\ pc' = "running"
    /\ stack' = <<Frame(v, indent, <<>>)>>
    /\ call' = [v |-> v, indent |-> indent]
    /\ UNCHANGED <<nodes, tensors, out, ret, mat1, mat2, cell, shown>>

\* The if / elif at the head of the function, and the print of the branch taken.
Enter ==
    /\ pc = "running"
    /\ Top.at = "test"
    /\ IF TakesGradFnBranch(Top.v) \/ TakesNodeBranch(Top.v)
         THEN /\ out' = Append(out, Line(Top.indent, PrintedNode(Top.v), Top.path))
              /\ stack' = SetTop([Top EXCEPT !.at = "loop", !.fn = PrintedNode(Top.v)])
              /\ UNCHANGED <<pc, ret>>
         ELSE /\ ReturnFromCall
              /\ UNCHANGED out
    /\ UNCHANGED <<nodes, tensors, call, mat1, mat2, cell, shown>>

\* Faulty variant: a link is cleared once it has been followed.
Iterate_consuming ==
    /\ pc = "running"
    /\ Top.at = "loop"
    /\ Top.i <= Len(LoopLinks(Top))
    /\ LET f == LoopLinks(Top)[Top.i]
           next == [Top EXCEPT !.i = Top.i + 1]
       IN  IF FollowsLink(f)
             THEN /\ Len(stack) < MaxDepth
                  /\ stack' = Append(SetTop(next),
                                     Frame(NodeValue(f), Top.indent + IndentStep,
                                           Append(Top.path, Top.i)))
                  /\ nodes' = [nodes EXCEPT ![Top.fn].next_functions[Top.i] = None]
             ELSE stack' = SetTop(next) /\ UNCHANGED nodes
    /\ UNCHANGED <<tensors, pc, out, ret, call, mat1, mat2, cell, shown>>

\* One iteration of the for loop: a link that is not None is a recursive call.
Iterate ==
    /\ pc = "running"
    /\ Top.at = "loop"
    /\ Top.i <= Len(LoopLinks(Top))
    /\ LET f == LoopLinks(Top)[Top.i]
           next == [Top EXCEPT !.i = Top.i + 1]
       IN  IF FollowsLink(f)
             THEN /\ Len(stack) < MaxDepth
                  /\ stack' = Append(SetTop(next),
                                     Frame(NodeValue(f), Top.indent + IndentStep,
                                           Append(Top.path, Top.i)))
             ELSE stack' = SetTop(next)
    /\ UNCHANGED <<nodes, tensors, pc, out, ret, call, mat1, mat2, cell, shown>>

\* The for loop is exhausted: the call returns.
Return ==
    /\ pc = "running"
    /\ Top.at = "loop"
    /\ Top.i > Len(LoopLinks(Top))
    /\ ReturnFromCall
    /\ UNCHANGED <<nodes, tensors, out, call, mat1, mat2, cell, shown>>

----------------------------------------------------------------------------
(* Spec: print_grad_graph on every acyclic graph of at most MaxNodes nodes *)

\* The link tuples of a node whose operands are among nodes 1..k.
LinkSeqs(k) == UNION {[1..len -> 0..k] : len \in LinkCounts}

\* Acyclic graphs of n nodes, numbered as autograd creates them: a node's
\* operands exist before it does.
RECURSIVE Dags(_)
Dags(n) ==
    IF n = 0 THEN {<<>>}
    ELSE {Append(g, BackwardNode("Node", l, None)) : g \in Dags(n - 1), l \in LinkSeqs(n - 1)}

\* The values the function tells apart, for a graph whose root is node n.
StartValues(n) ==
    {Value(gf, nf) : gf \in {Absent, None} \cup (IF n = 0 THEN {} ELSE {n}),
                     nf \in {Absent} \cup (IF n = 0 THEN {} ELSE {n})}

NoMatrix == <<>>
NoCall == [v |-> Value(Absent, Absent), indent |-> 0]

Init ==
    /\ nodes \in UNION {Dags(n) : n \in 0..MaxNodes}
    /\ tensors = <<>>
    /\ pc = "idle"
    /\ stack = <<>>
    /\ out = <<>>
    /\ ret = Absent
    /\ call = NoCall
    /\ mat1 = NoMatrix /\ mat2 = NoMatrix /\ cell = 0 /\ shown = <<>>

CallAny == \E v \in StartValues(Len(nodes)), indent \in StartIndents : Call(v, indent)

Next == CallAny \/ Enter \/ Iterate \/ Return

Spec == Init /\ [][Next]_vars

----------------------------------------------------------------------------
(* Reading a graph and a console, for the properties below *)

Links(k) == nodes[k].next_functions

\* Whether the outermost call printed anything at all, and its root node.
HasRoot == TakesGradFnBranch(call.v) \/ TakesNodeBranch(call.v)
Root == PrintedNode(call.v)

\* A value that lacks provenance: grad_fn missing or None, no next_functions.
LacksProvenance(v) == v.gf \in {Absent, None} /\ v.nf = Absent

\* The node a path of link positions leads to from node k (None: nowhere).
RECURSIVE Resolve(_, _)
Resolve(k, p) ==
    IF p = <<>> THEN k
    ELSE IF k = None \/ Head(p) \notin DOMAIN Links(k) THEN None
    ELSE Resolve(Links(k)[Head(p)], Tail(p))

IsProperPrefix(p, q) == Len(p) < Len(q) /\ SubSeq(q, 1, Len(p)) = p

\* p comes before q in root-first, left-to-right order.
PreBefore(p, q) ==
    \/ IsProperPrefix(p, q)
    \/ \E k \in 1..Len(p) :
         /\ k <= Len(q)
         /\ SubSeq(p, 1, k - 1) = SubSeq(q, 1, k - 1)
         /\ p[k] < q[k]

RECURSIVE SumOver(_, _)
SumOver(f, S) ==
    IF S = {} THEN 0
    ELSE LET x == CHOOSE y \in S : TRUE IN f[x] + SumOver(f, S \ {x})

\* The number of paths of exactly d non-null links from node a to node b.
RECURSIVE NumPathsAt(_, _, _)
NumPathsAt(a, b, d) ==
    IF d = 0 THEN (IF a = b THEN 1 ELSE 0)
    ELSE LET live == {k \in DOMAIN Links(a) : Links(a)[k] # None}
         IN  SumOver([k \in live |-> NumPathsAt(Links(a)[k], b, d - 1)], live)

Depths == 0..Len(nodes)
NumPaths(a, b) == SumOver([d \in Depths |-> NumPathsAt(a, b, d)], Depths)

LinesOf(k) == {i \in 1..Len(out) : out[i].node = k}
LinesOfAt(k, d) == {i \in LinesOf(k) : out[i].spaces = call.indent + IndentStep * d}
Reachable == {k \in 1..Len(nodes) : NumPaths(Root, k) > 0}

----------------------------------------------------------------------------
(* C1 *)

\* C1: called on a value that lacks provenance (grad_fn missing or None, no
\* next_functions), print_grad_graph prints no line and fails nowhere: the
\* call is taken straight to its end and returns, whatever the indent.
C1_NoProvenanceNoOutput ==
    (pc # "idle" /\ LacksProvenance(call.v)) =>
        /\ out = <<>>
        /\ pc = "running" => (Len(stack) = 1 /\ Top.at = "test" /\ ENABLED Enter)
        /\ pc = "done" => (stack = <<>> /\ ret = None)

C1_Witness ==
    /\ pc = "done" /\ LacksProvenance(call.v) /\ call.v.gf = None
    /\ call.indent = 3 /\ Len(nodes) > 0 /\ out = <<>>

----------------------------------------------------------------------------
(* C2 *)

\* C2: on an acyclic graph the lines come root first: each line shows the
\* node its path of operand links leads to from the root, at indent + 4 * depth
\* spaces, a node's line comes before the lines reached through its links,
\* links are taken in positional order, and at the end every path of
\* non-null links from the root has its line.
C2_PreOrder ==
    /\ \A i \in 1..Len(out) :
         /\ out[i].node # None
         /\ out[i].node = Resolve(Root, out[i].path)
         /\ out[i].spaces = call.indent + IndentStep * Len(out[i].path)
    /\ \A i, j \in 1..Len(out) : i < j => PreBefore(out[i].path, out[j].path)
    /\ pc = "done" /\ HasRoot =>
         \A i \in 1..Len(out) : \A k \in DOMAIN Links(out[i].node) :
            Links(out[i].node)[k] # None =>
               \E j \in 1..Len(out) : j > i /\ out[j].path = Append(out[i].path, k)
    /\ pc = "done" /\ HasRoot => (Len(out) >= 1 /\ out[1].path = <<>>)

C2_Witness ==
    /\ pc = "done" /\ call.indent = 3 /\ Len(out) >= 4
    /\ \E i \in 1..Len(out) : Len(out[i].path) = 2
    /\ \E i, j \in 1..Len(out) :
         i < j /\ Len(out[i].path) = 2 /\ Len(out[j].path) = 1

----------------------------------------------------------------------------
(* C3 *)

\* The positions of a node's links that are not None.
LiveLinks(k) == {p \in DOMAIN Links(k) : Links(k)[p] # None}
ChildLines(i) ==
    {j \in 1..Len(out) : /\ Len(out[j].path) = Len(out[i].path) + 1
                         /\ IsProperPrefix(out[i].path, out[j].path)}

\* C3: a recursive call exists only for a non-null link of the caller's
\* node; a node without links prints its one line and nothing below it; a
\* null link gets no line and no call, and every non-null link gets exactly
\* one subtree, in positional order.
C3_LeavesAndNullLinks ==
    /\ \A d \in 2..Len(stack) :
         LET up == stack[d - 1]
             p == stack[d].path[Len(stack[d].path)]
         IN  /\ up.at = "loop"
             /\ p = up.i - 1
             /\ p \in LiveLinks(up.fn)
             /\ stack[d].v = NodeValue(Links(up.fn)[p])
    /\ \A i \in 1..Len(out) : out[i].node # None
    /\ pc = "done" =>
         \A i \in 1..Len(out) :
            /\ {out[j].path[Len(out[j].path)] : j \in ChildLines(i)} = LiveLinks(out[i].node)
            /\ Cardinality(ChildLines(i)) = Cardinality(LiveLinks(out[i].node))
            /\ \A j, l \in ChildLines(i) :
                 j < l => out[j].path[Len(out[j].path)] < out[l].path[Len(out[l].path)]
            /\ Links(out[i].node) = <<>> =>
                 \A j \in 1..Len(out) : ~IsProperPrefix(out[i].path, out[j].path)

C3_Witness ==
    /\ pc = "done"
    /\ \E i \in 1..Len(out) :
         /\ Len(Links(out[i].node)) = 2
         /\ Links(out[i].node)[1] = None
         /\ Links(out[i].node)[2] # None
         /\ Links(Links(out[i].node)[2]) = <<>>
         /\ Cardinality(ChildLines(i)) = 1

----------------------------------------------------------------------------
(* C7 *)

IsPrefix(s, t) == Len(s) <= Len(t) /\ SubSeq(t, 1, Len(s)) = s

\* C7: no step of print_grad_graph changes the graph (the nodes, their
\* ordered links, the leaf markers' variables) or a tensor; the console only
\* grows at its end; the call returns None.
C7_PurelyObservational ==
    [][/\ nodes' = nodes
       /\ tensors' = tensors
       /\ IsPrefix(out, out')
       /\ pc' = "done" => ret' = None]_vars

C7_Witness ==
    pc = "done" /\ Len(out) >= 3 /\ ret = None /\ Len(nodes) = 3

----------------------------------------------------------------------------
(* C10 *)

\* C10: shared nodes are not deduplicated: on an acyclic graph every node is
\* printed once per path of non-null links from the root, at the indent of
\* that path's depth, so the console holds as many lines as there are paths
\* from the root.
C10_OneLinePerPath ==
    (pc = "done" /\ HasRoot) =>
        /\ \A k \in 1..Len(nodes) :
             /\ Cardinality(LinesOf(k)) = NumPaths(Root, k)
             /\ \A d \in Depths : Cardinality(LinesOfAt(k, d)) = NumPathsAt(Root, k, d)
        /\ Len(out) = SumOver([k \in 1..Len(nodes) |-> NumPaths(Root, k)], 1..Len(nodes))

C10_Witness ==
    /\ pc = "done" /\ HasRoot
    /\ Len(out) > Cardinality(Reachable)
    /\ \E k \in 1..Len(nodes) :
         /\ Cardinality(LinesOf(k)) = 3
         /\ \E d, e \in Depths : d # e /\ LinesOfAt(k, d) # {} /\ LinesOfAt(k, e) # {}

----------------------------------------------------------------------------
(* SpecCyc: print_grad_graph on every graph of at most MaxCycNodes nodes,   *)
(* cycles included, under an interpreter that keeps running                 *)

\* Graphs of n nodes whose links may lead anywhere, back to the node itself
\* or to an ancestor included.
AnyGraphs(n) == [1..n -> {BackwardNode("Node", l, None) : l \in LinkSeqs(n)}]

InitCyc ==
    /\ nodes \in UNION {AnyGraphs(n) : n \in 0..MaxCycNodes}
    /\ tensors = <<>>
    /\ pc = "idle"
    /\ stack = <<>>
    /\ out = <<>>
    /\ ret = Absent
    /\ call = NoCall
    /\ mat1 = NoMatrix /\ mat2 = NoMatrix /\ cell = 0 /\ shown = <<>>

\* print_grad_graph(v): indent takes its default.
CallDefault == \E v \in StartValues(Len(nodes)) : Call(v, 0)

NextCyc == CallDefault \/ Enter \/ Iterate \/ Return

SpecCyc == InitCyc /\ [][NextCyc]_vars /\ WF_vars(NextCyc)

----------------------------------------------------------------------------
(* C9 *)

Successors(S) == (UNION {{Links(k)[p] : p \in DOMAIN Links(k)} : k \in S}) \ {None}

RECURSIVE Closure(_)
Closure(S) ==
    LET T == S \cup Successors(S) IN IF T = S THEN S ELSE Closure(T)

\* A cycle of non-null links can be reached from the root of the call.
CycleReachable ==
    HasRoot /\ \E k \in Closure({Root}) : k \in Closure(Successors({k}))

\* C9: on an acyclic graph every call returns, so the outermost call ends;
\* with a cycle reachable from the root it never ends, and nothing but the
\* depth of the stack ever holds the recursion back (no visited set, no
\* depth limit of the function's own).
C9_TerminatesIffAcyclic ==
    /\ []((pc = "running" /\ ~CycleReachable) => <>(pc = "done"))
    /\ []((pc # "idle" /\ CycleReachable) => pc # "done")
    /\ []((pc = "running" /\ ~ENABLED NextCyc) => (CycleReachable /\ Len(stack) = MaxDepth))

C9_Witness ==
    /\ pc = "running" /\ CycleReachable /\ Len(stack) = MaxDepth
    /\ Len(nodes) = 2 /\ Root = 2
    /\ Links(2) = <<None, 1>> /\ Links(1) = <<2>>
    /\ Len(out) = MaxDepth

----------------------------------------------------------------------------
(* The autograd notebook: LinearRegressionModel, its inputs, nn.L1Loss *)

\* A tensor the notebook holds: how it was made ("param", "input", "pred",
\* "loss"), from which tensors (args) and by which backward nodes (ops).
Tensor(kind, rg, gf, args, ops) ==
    [kind |-> kind, requires_grad |-> rg, grad_fn |-> gf, args |-> args, ops |-> ops]

\* self.weights and self.bias of the model, both nn.Parameter(..., requires_grad=True).
Weights == 1
Bias == 2

\* The AccumulateGrad node of leaf tensor t among the nodes ns (None: not made yet).
AccOf(ns, t) ==
    IF \E k \in 1..Len(ns) : ns[k].name = "AccumulateGrad" /\ ns[k].variable = t
      THEN CHOOSE k \in 1..Len(ns) : ns[k].name = "AccumulateGrad" /\ ns[k].variable = t
      ELSE None

IsTrackedLeaf(t) == tensors[t].grad_fn = None /\ tensors[t].requires_grad

\* A leaf that requires grad gets its AccumulateGrad node when an operation
\* first takes it as an operand.
WithAcc(ns, t) ==
    IF IsTrackedLeaf(t) /\ AccOf(ns, t) = None
      THEN Append(ns, BackwardNode("AccumulateGrad", <<>>, t))
      ELSE ns

\* The link an operation records for operand t: the node that produced t, the
\* leaf marker of a leaf that requires grad, None for an untracked tensor.
EdgeTo(ns, t) ==
    IF tensors[t].grad_fn # None THEN tensors[t].grad_fn
    ELSE IF IsTrackedLeaf(t) THEN AccOf(ns, t)
    ELSE None

\* Faulty variant: self.bias + self.weights * x.
ForwardNodes_biasFirst(ns, x) ==
    LET ns1 == WithAcc(WithAcc(ns, Weights), x)
        ns2 == Append(ns1, BackwardNode("MulBackward0",
                                        <<EdgeTo(ns1, Weights), EdgeTo(ns1, x)>>, None))
        ns3 == WithAcc(ns2, Bias)
    IN  Append(ns3, BackwardNode("AddBackward0", <<EdgeTo(ns3, Bias), Len(ns2)>>, None))

\* forward: self.weights * x + self.bias, the multiplication first.
ForwardNodes(ns, x) ==
    LET ns1 == WithAcc(WithAcc(ns, Weights), x)
        ns2 == Append(ns1, BackwardNode("MulBackward0",
                                        <<EdgeTo(ns1, Weights), EdgeTo(ns1, x)>>, None))
        ns3 == WithAcc(ns2, Bias)
    IN  Append(ns3, BackwardNode("AddBackward0", <<Len(ns2), EdgeTo(ns3, Bias)>>, None))

\* nn.L1Loss()(p, t): mean(abs(p - t)).
L1LossNodes(ns, p, t) ==
    LET ns1 == WithAcc(WithAcc(ns, p), t)
        ns2 == Append(ns1, BackwardNode("SubBackward0", <<EdgeTo(ns1, p), EdgeTo(ns1, t)>>, None))
        ns3 == Append(ns2, BackwardNode("AbsBackward0", <<Len(ns2)>>, None))
    IN  Append(ns3, BackwardNode("MeanBackward0", <<Len(ns3)>>, None))

IsOp(ns, k) == ns[k].name # "AccumulateGrad"
NewOps(ns) == {k \in (Len(nodes) + 1)..Len(ns) : IsOp(ns, k)}

Quiet == UNCHANGED <<pc, stack, out, ret, call, mat1, mat2, cell, shown>>

\* x = torch.randn(1, 1, requires_grad=rg)
Randn(rg) ==
    /\ pc = "idle"
    /\ Len(tensors) < MaxTensors
    /\ tensors' = Append(tensors, Tensor("input", rg, None, <<>>, {}))
    /\ UNCHANGED nodes
    /\ Quiet

\* y_pred = model(x)
Forward(x) ==
    /\ pc = "idle"
    /\ Len(tensors) < MaxTensors
    /\ tensors[x].kind = "input"
    /\ LET ns == ForwardNodes(nodes, x)
       IN  /\ nodes' = ns
           /\ tensors' = Append(tensors, Tensor("pred", TRUE, Len(ns), <<x>>, NewOps(ns)))
    /\ Quiet

\* loss = loss_fn(p, t)
L1Loss(p, t) ==
    /\ pc = "idle"
    /\ Len(tensors) < MaxTensors
    /\ tensors[p].kind \in {"input", "pred"}
    /\ tensors[t].kind \in {"input", "pred"}
    /\ IF tensors[p].requires_grad \/ tensors[t].requires_grad
         THEN LET ns == L1LossNodes(nodes, p, t)
              IN  /\ nodes' = ns
                  /\ tensors' = Append(tensors, Tensor("loss", TRUE, Len(ns), <<p, t>>, NewOps(ns)))
         ELSE /\ UNCHANGED nodes
              /\ tensors' = Append(tensors, Tensor("loss", FALSE, None, <<p, t>>, {}))
    /\ Quiet

\* print_grad_graph(t) on a tensor of the notebook.
CallTensor(t) == Call(Value(tensors[t].grad_fn, Absent), 0)

\* model = LinearRegressionModel()
InitFwd ==
    /\ nodes = <<>>
    /\ tensors = <<Tensor("param", TRUE, None, <<>>, {}), Tensor("param", TRUE, None, <<>>, {})>>
    /\ pc = "idle"
    /\ stack = <<>>
    /\ out = <<>>
    /\ ret = Absent
    /\ call = NoCall
    /\ mat1 = NoMatrix /\ mat2 = NoMatrix /\ cell = 0 /\ shown = <<>>

NextFwd ==
    \/ \E rg \in BOOLEAN : Randn(rg)
    \/ \E x \in 1..Len(tensors) : Forward(x)
    \/ \E p, t \in 1..Len(tensors) : L1Loss(p, t)
    \/ \E t \in 1..Len(tensors) : CallTensor(t)
    \/ Enter
    \/ Iterate
    \/ Return

SpecFwd == InitFwd /\ [][NextFwd]_vars

----------------------------------------------------------------------------
(* C5 *)

IsLeafMarker(k, t) ==
    /\ k # None
    /\ nodes[k].name = "AccumulateGrad"
    /\ nodes[k].variable = t
    /\ Links(k) = <<>>

Preds == {y \in 1..Len(tensors) : tensors[y].kind = "pred"}

\* C5: the graph of y = model(x) is one add node at its root with links
\* (multiply node, leaf marker of bias); the multiply node's links are
\* (leaf marker of weights, None) when x does not require grad and
\* (leaf marker of weights, leaf marker of x) when it does.
C5_ForwardGraph ==
    \A y \in Preds :
        LET x == tensors[y].args[1]
            add == tensors[y].grad_fn
        IN  /\ add # None
            /\ nodes[add].name = "AddBackward0"
            /\ Len(Links(add)) = 2
            /\ LET mul == Links(add)[1]
               IN  /\ mul # None
                   /\ nodes[mul].name = "MulBackward0"
                   /\ IsLeafMarker(Links(add)[2], Bias)
                   /\ Len(Links(mul)) = 2
                   /\ IsLeafMarker(Links(mul)[1], Weights)
                   /\ tensors[x].requires_grad => IsLeafMarker(Links(mul)[2], x)
                   /\ ~tensors[x].requires_grad => Links(mul)[2] = None
                   /\ tensors[y].ops = {mul, add}
                   /\ Closure({add}) =
                        {add, mul, Links(add)[2], Links(mul)[1]} \cup (Successors({mul}))

C5_Witness ==
    \E y, z \in Preds :
        /\ tensors[tensors[y].args[1]].requires_grad
        /\ ~tensors[tensors[z].args[1]].requires_grad
        /\ y < z

----------------------------------------------------------------------------
(* C4 *)

\* loss = L1Loss(model(x), y_true) with x and y_true untracked inputs.
IsPlainLoss(t) ==
    /\ tensors[t].kind = "loss"
    /\ tensors[tensors[t].args[1]].kind = "pred"
    /\ ~tensors[tensors[tensors[t].args[1]].args[1]].requires_grad
    /\ tensors[tensors[t].args[2]].kind = "input"
    /\ ~tensors[tensors[t].args[2]].requires_grad

Printed == [i \in 1..Len(out) |->
              [spaces |-> out[i].spaces, name |-> nodes[out[i].node].name,
               variable |-> nodes[out[i].node].variable]]

Shown(spaces, name, variable) == [spaces |-> spaces, name |-> name, variable |-> variable]

\* C4: for loss = mean(abs(y_pred - y_true)) the root is a mean node whose
\* one link is an abs node, whose one link is a sub node with links
\* (add node of y_pred, None); print_grad_graph(loss) prints the seven lines
\* Mean 0, Abs 4, Sub 8, Add 12, Mul 16, AccumulateGrad(weights) 20,
\* AccumulateGrad(bias) 16.
C4_LossGraph ==
    \A t \in 1..Len(tensors) : IsPlainLoss(t) =>
        LET mean == tensors[t].grad_fn
        IN  /\ mean # None
            /\ nodes[mean].name = "MeanBackward0"
            /\ Len(Links(mean)) = 1
            /\ nodes[Links(mean)[1]].name = "AbsBackward0"
            /\ Len(Links(Links(mean)[1])) = 1
            /\ LET sub == Links(Links(mean)[1])[1]
               IN  /\ nodes[sub].name = "SubBackward0"
                   /\ Links(sub) = <<tensors[tensors[t].args[1]].grad_fn, None>>
            /\ (pc = "done" /\ call.v = Value(mean, Absent)) =>
                 Printed = << Shown(0, "MeanBackward0", None),
                              Shown(4, "AbsBackward0", None),
                              Shown(8, "SubBackward0", None),
                              Shown(12, "AddBackward0", None),
                              Shown(16, "MulBackward0", None),
                              Shown(20, "AccumulateGrad", Weights),
                              Shown(16, "AccumulateGrad", Bias) >>

C4_Witness ==
    /\ pc = "done"
    /\ Len(out) = 7
    /\ \E t \in 1..Len(tensors) : IsPlainLoss(t) /\ call.v = Value(tensors[t].grad_fn, Absent)

----------------------------------------------------------------------------
(* C8 *)

\* The operations autograd recorded in computing tensor t, those of its
\* operands included.
RECURSIVE UsedOps(_)
UsedOps(t) == tensors[t].ops \cup UNION {UsedOps(tensors[t].args[a]) : a \in DOMAIN tensors[t].args}

\* The tensor print_grad_graph was called on. Backward nodes are numbered as
\* they are created, so among operations a smaller number executed earlier.
Printee == CHOOSE t \in 1..Len(tensors) : tensors[t].grad_fn = Root
OpLines == {i \in 1..Len(out) : IsOp(nodes, out[i].node)}
PrintedOps == {out[i].node : i \in OpLines}

\* Every operation below the root takes the result of at most one operation.
IsChain ==
    \A k \in Closure({Root}) :
        Cardinality({p \in DOMAIN Links(k) : Links(k)[p] # None /\ IsOp(nodes, Links(k)[p])}) <= 1

\* C8 as stated: the lines are exactly the operations used, and an operation
\* that executed later is always printed earlier (whenever A ran before B,
\* every line of B comes before every line of A).
C8_ReverseExecutionOrder ==
    (pc = "done" /\ HasRoot) =>
        /\ PrintedOps = UsedOps(Printee)
        /\ \A i, j \in OpLines : out[i].node < out[j].node => j < i

\* C8 amended: the lines are exactly the operations recorded for the scalar;
\* an operation is printed before the operations that produced its
\* operands, which executed before it; in a chain of operations the order of
\* the lines is the exact reverse of the order of execution.
C8_ReverseAlongLinks ==
    /\ \A i, j \in OpLines :
         IsProperPrefix(out[i].path, out[j].path) => (i < j /\ out[j].node < out[i].node)
    /\ (pc = "done" /\ HasRoot) => PrintedOps = UsedOps(Printee)
    /\ (pc = "done" /\ HasRoot /\ IsChain) =>
         \A i, j \in OpLines : out[i].node < out[j].node => j < i

C8_Witness ==
    /\ pc = "done" /\ HasRoot /\ ~IsChain
    /\ Cardinality(PrintedOps) = 7
    /\ \E i, j \in OpLines : i < j /\ out[i].node < out[j].node

----------------------------------------------------------------------------
(* The multiplication notebook. A tensor is its shape and its data: a 2-D   *)
(* tensor's data is the tuple of its rows, a 3-D tensor's the tuple of its  *)
(* matrices. The dtype is torch.int32 throughout; with entries of at most   *)
(* MaxEntry no sum or product comes near the int32 range, so no result      *)
(* wraps.                                                                   *)

TensorOf(shape, data) == [shape |-> shape, data |-> data]

\* torch.ones([r, c], dtype=torch.int32)
Ones(r, c) == TensorOf(<<r, c>>, [i \in 1..r |-> [j \in 1..c |-> 1]])

RECURSIVE DotUpTo(_, _, _, _, _)
DotUpTo(a, b, i, j, k) ==
    IF k = 0 THEN 0 ELSE a[i][k] * b[k][j] + DotUpTo(a, b, i, j, k - 1)

\* The matrix product of two tuples of rows.
Product(a, b) ==
    [i \in 1..Len(a) |-> [j \in 1..Len(b[1]) |-> DotUpTo(a, b, i, j, Len(b))]]

\* torch.mm: two 2-D tensors, inner sizes equal.
TorchMm(a, b) ==
    TensorOf(<<a.shape[1], b.shape[2]>>, Product(a.data, b.data))

\* torch.bmm: two 3-D tensors of the same batch size.
TorchBmm(a, b) ==
    TensorOf(<<a.shape[1], a.shape[2], b.shape[3]>>,
             [n \in 1..a.shape[1] |-> Product(a.data[n], b.data[n])])

\* torch.matmul, as far as the notebook uses it: 2-D by 2-D is the matrix
\* product, 3-D by 3-D the batched one.
TorchMatmul(a, b) ==
    IF Len(a.shape) = 2 /\ Len(b.shape) = 2 THEN TorchMm(a, b) ELSE TorchBmm(a, b)

\* Faulty variant: torch.mul taken for a matrix product.
TorchMul_asProduct(a, b) == TorchMm(a, b)

\* torch.mul: element by element, on two tensors of the same 2-D shape.
TorchMul(a, b) ==
    TensorOf(a.shape, [i \in 1..a.shape[1] |->
                          [j \in 1..a.shape[2] |-> a.data[i][j] * b.data[i][j]]])

\* t.unsqueeze(0)
Unsqueeze0(t) == TensorOf(<<1>> \o t.shape, <<t.data>>)

\* 2 x 2 tensors with entries in S.
Square(S) == {TensorOf(<<2, 2>>, <<<<a, b>>, <<c, d>>>>) : a \in S, b \in S, c \in S, d \in S}

\* mat1 = torch.tensor([[1, 2], [3, 4]], dtype=torch.int32)
Mat1 == TensorOf(<<2, 2>>, <<<<1, 2>>, <<3, 4>>>>)

\* One print(torch.xxx(...)) statement of the cell: the k-th, showing t.
PrintResult(k, t) ==
    /\ cell = k - 1
    /\ cell' = k
    /\ shown' = Append(shown, t)
    /\ UNCHANGED <<nodes, tensors, pc, stack, out, ret, call, mat1, mat2>>

PrintMatmul == PrintResult(1, TorchMatmul(mat1, mat2))
PrintMm == PrintResult(2, TorchMm(mat1, mat2))
PrintBmm == PrintResult(3, TorchBmm(Unsqueeze0(mat1), Unsqueeze0(mat2)))
PrintMul == PrintResult(4, TorchMul(mat1, mat2))

\* The operands: the notebook's own (Mat1 and all ones), and their
\* neighbours with entries in 1..MaxEntry and 0..1.
InitMat ==
    /\ mat1 \in Square(1..MaxEntry)
    /\ mat2 \in Square(0..1)
    /\ cell = 0
    /\ shown = <<>>
    /\ nodes = <<>> /\ tensors = <<>> /\ pc = "idle" /\ stack = <<>>
    /\ out = <<>> /\ ret = Absent /\ call = NoCall

NextMat == PrintMatmul \/ PrintMm \/ PrintBmm \/ PrintMul

SpecMat == InitMat /\ [][NextMat]_vars

----------------------------------------------------------------------------
(* C6 *)

Product12 == <<<<3, 3>>, <<7, 7>>>>

\* C6: with mat1 = [[1,2],[3,4]] and mat2 all ones, matmul and mm print
\* [[3,3],[7,7]], bmm of the unsqueezed operands prints [[[3,3],[7,7]]],
\* and mul prints [[1,2],[3,4]].
C6_FourProducts ==
    (mat1 = Mat1 /\ mat2 = Ones(2, 2)) =>
        /\ cell >= 1 => shown[1] = TensorOf(<<2, 2>>, Product12)
        /\ cell >= 2 => shown[2] = TensorOf(<<2, 2>>, Product12)
        /\ cell >= 3 => shown[3] = TensorOf(<<1, 2, 2>>, <<Product12>>)
        /\ cell >= 4 => shown[4] = TensorOf(<<2, 2>>, <<<<1, 2>>, <<3, 4>>>>)

C6_Witness ==
    mat1 = Mat1 /\ mat2 = Ones(2, 2) /\ cell = 4 /\ Len(shown) = 4

====
